---------------------------- MODULE Spec2Model ----------------------------
(***************************************************************************)
(* A model of src/main/cpp/util/file.cc (namespace blaze_util):            *)
(*   NormalizePath, JoinPath, ReadFrom, WriteTo, DirectoryTreeWalker and   *)
(*   _GetAllFilesUnder.                                                    *)
(*                                                                         *)
(* A std::string is a sequence of characters; a character is a one-letter  *)
(* TLA+ string, and NUL stands for the character '\0'.  Indices in the     *)
(* operators that follow the C++ code are 0-based, as in the code.         *)
(***************************************************************************)
EXTENDS Integers, Sequences, FiniteSets, TLC

VARIABLES
    \* ---- NormalizePath
    path,        \* the argument of NormalizePath
    n_out,       \* NormalizePath(path)
    n_out2,      \* NormalizePath(n_out)
    n_pc,        \* "start" | "once" | "twice"
    \* ---- JoinPath
    path1, path2,
    j_out,       \* JoinPath(path1, path2)
    j_pc,        \* "start" | "done"
    \* ---- ReadFrom
    r_arg,       \* the max_size argument of the call
    r_len,       \* the number of bytes the input holds
    max_size,    \* the local max_size: the allowance left
    content,     \* *content: the chunks appended, each [off, len]
    r_ret,       \* "none" | "true" | "false" | "length_error"
    r_pc,        \* "start" | "loop" | "done"
    calls,       \* history: the calls of read_func made so far
    \* ---- WriteTo
    size,        \* the size argument, a size_t: [hi, lo], hi * 2^31 + lo
    w_r,         \* what write_func returned
    w_ret,       \* what WriteTo returned
    w_calls,     \* history: how many times write_func was called
    w_pc,        \* "start" | "done"
    \* ---- GetAllFilesUnder
    tree,        \* the entries under `path`: entry |-> [parent, is_directory]
    result,      \* *result
    result0,     \* history: *result before the call
    stack,       \* the walks in progress: [dir, left], innermost last
    seen,        \* history: dir |-> its entries in the order enumerated
    d_pc         \* "start" | "walking" | "done"

nvars == <<path, n_out, n_out2, n_pc>>
jvars == <<path1, path2, j_out, j_pc>>
rvars == <<r_arg, r_len, max_size, content, r_ret, r_pc, calls>>
wvars == <<size, w_r, w_ret, w_calls, w_pc>>
dvars == <<tree, result, result0, stack, seen, d_pc>>
vars  == <<nvars, jvars, rvars, wvars, dvars>>

-----------------------------------------------------------------------------
(* Characters and strings *)

Slash == "/"
Dot   == "."
NUL   == "NUL"

\* The longest path NormalizePath is given, and the letters it is made of.
MaxLen == 5
Alphabet == {Slash, Dot, "a", "b", NUL}

\* The longest argument JoinPath is given, and the letters it is made of.
MaxJoinLen == 3
JoinAlphabet == {Slash, "a", "b"}

Strings(letters, n) == UNION {[1..k -> letters] : k \in 0..n}

\* The paths of the specification's examples.
Examples ==
    { <<"a", "/", ".", "/", "b", "/", ".", ".", "/", "c">>,    \* a/./b/../c
      <<"a", "/", ".", ".", "/", ".", ".", "/", "b">>,         \* a/../../b
      <<"/", "a", "/", "/", "b", "/", ".", "/", "c", "/">>,    \* /a//b/./c/
      <<"a", "NUL", "b", "/", "c">> }                          \* a\0b/c

Paths == Strings(Alphabet, MaxLen) \cup Examples

-----------------------------------------------------------------------------
(* NormalizePath, file.cc:35-88 *)

dot    == <<Dot>>
dotdot == <<Dot, Dot>>

\* path[i] of a std::string: the character at i, and '\0' at i = size().
CharAt(s, i) == IF i < Len(s) THEN s[i + 1] ELSE NUL

\* string segment(path, segment_start, i - segment_start)
Segment_ShortByOne(s, segment_start, i) == SubSeq(s, segment_start + 1, i - 1)
Segment(s, segment_start, i) == SubSeq(s, segment_start + 1, i)

\* What a finished segment does to `segments` (file.cc:58-64).
HandleSegment_NoPop(segments, segment) ==
    IF segment = dotdot THEN segments
    ELSE IF segment # dot THEN Append(segments, segment)
    ELSE segments
HandleSegment_KeepDot(segments, segment) ==
    IF segment = dotdot
    THEN IF segments # <<>> THEN SubSeq(segments, 1, Len(segments) - 1)
         ELSE segments
    ELSE Append(segments, segment)
HandleSegment(segments, segment) ==
    IF segment = dotdot
    THEN IF segments # <<>> THEN SubSeq(segments, 1, Len(segments) - 1)
         ELSE segments
    ELSE IF segment # dot THEN Append(segments, segment)
    ELSE segments

\* The loop of file.cc:46-69 from index i on: the segments it leaves.
RECURSIVE ScanSegments(_, _, _, _)
ScanSegments(s, i, segment_start, segments) ==
    LET c == CharAt(s, i)
        inSegment == c # Slash /\ c # NUL
        endsSegment == ~inSegment /\ segment_start >= 0 /\ i > segment_start
        start1 == IF inSegment
                  THEN IF segment_start < 0 THEN i ELSE segment_start
                  ELSE IF endsSegment THEN -1 ELSE segment_start
        segments1 == IF endsSegment
                     THEN HandleSegment(segments, Segment(s, segment_start, i))
                     ELSE segments
    IN  IF c = NUL THEN segments1
        ELSE ScanSegments(s, i + 1, start1, segments1)

\* The join of file.cc:78-87.
RECURSIVE JoinFrom(_, _, _)
JoinFrom(s, segments, k) ==
    IF k > Len(segments) THEN <<>>
    ELSE (IF k > 1 \/ s[1] = Slash THEN <<Slash>> ELSE <<>>)
         \o segments[k] \o JoinFrom(s, segments, k + 1)

JoinSegments(s, segments) == JoinFrom(s, segments, 1)

NormalizePath(s) ==
    IF s = <<>> THEN <<>>
    ELSE LET segments == ScanSegments(s, 0, -1, <<>>)
         IN  IF segments = <<>> /\ s[1] = Slash THEN <<Slash>>
             ELSE JoinSegments(s, segments)

-----------------------------------------------------------------------------
(* JoinPath, file.cc:136-159 *)

\* std::string::find(c): the index of the first c, or npos (here -1).
RECURSIVE FindFrom(_, _, _)
FindFrom(s, c, i) ==
    IF i >= Len(s) THEN -1
    ELSE IF s[i + 1] = c THEN i
    ELSE FindFrom(s, c, i + 1)
Find(s, c) == FindFrom(s, c, 0)

\* std::string::substr(pos)
Substr(s, pos) == SubSeq(s, pos + 1, Len(s))

JoinPath_AlwaysSeparator(p1, p2) ==
    IF p1 = <<>> THEN p2
    ELSE IF p1[Len(p1)] = Slash
         THEN IF Find(p2, Slash) = 0 THEN p1 \o Substr(p2, 1) ELSE p1 \o p2
         ELSE p1 \o <<Slash>> \o p2
JoinPath(p1, p2) ==
    IF p1 = <<>> THEN p2
    ELSE IF p1[Len(p1)] = Slash
         THEN IF Find(p2, Slash) = 0 THEN p1 \o Substr(p2, 1) ELSE p1 \o p2
         ELSE IF Find(p2, Slash) = 0 THEN p1 \o p2
              ELSE p1 \o <<Slash>> \o p2

-----------------------------------------------------------------------------
(* ReadFrom, file.cc:90-113 *)

\* char buf[4096]
BufSize == 4096

Min(a, b) == IF a < b THEN a ELSE b

\* The length asked of read_func (file.cc:96-98).
RequestLen_WholeBuffer(allowance) == BufSize
RequestLen(allowance) ==
    IF allowance > 0 THEN Min(allowance, BufSize) ELSE BufSize

\* errno == EINTR || errno == EAGAIN (file.cc:100)
IsRetryable_Always(err) == TRUE
IsRetryable_OnlyEINTR(err) == err = "EINTR"
IsRetryable(err) == err = "EINTR" \/ err = "EAGAIN"

\* content->append(buf, r): r is converted to size_t, so a negative r is a
\* length beyond max_size() and append throws std::length_error; otherwise
\* the r bytes that read_func left in buf (the input's bytes from off on)
\* are appended.
StringAppend(str, off, r) ==
    IF r < 0 THEN "length_error" ELSE Append(str, [off |-> off, len |-> r])

\* file.cc:104-110: the allowance left after r bytes, and whether the loop
\* goes on.
AfterAppend_NoBreak(allowance, r) ==
    [max_size |-> allowance, status |-> "loop"]
AfterAppend(allowance, r) ==
    IF allowance > 0
    THEN IF allowance > r
         THEN [max_size |-> allowance - r, status |-> "loop"]
         ELSE [max_size |-> allowance, status |-> "true"]
    ELSE [max_size |-> allowance, status |-> "loop"]

\* content->clear() (file.cc:92)
Clear(str) == <<>>

\* One turn of the loop of file.cc:95-111 on the result res = [r, err, off]
\* of read_func; st = [max_size, content, status], status "loop" while the
\* loop goes on and else what the call ended with.
ReadIter(st, res) ==
    IF res.r = 0 THEN [st EXCEPT !.status = "true"]
    ELSE IF res.r = -1
    THEN IF IsRetryable(res.err) THEN st
         ELSE [st EXCEPT !.status = "false"]
    ELSE LET appended == StringAppend(st.content, res.off, res.r)
             after == AfterAppend(st.max_size, res.r)
         IN  IF appended = "length_error"
             THEN [st EXCEPT !.status = "length_error"]
             ELSE [max_size |-> after.max_size,
                   content  |-> appended,
                   status   |-> after.status]

-----------------------------------------------------------------------------
(* read_func: the caller's primitive, reading an input of r_len bytes. *)

\* How many short reads and retryable failures one call sees, in all.
MaxExtra == 3
\* The small sizes tried beside those around BufSize.
MaxSmall == 3

RECURSIVE Bytes(_)
Bytes(str) == IF str = <<>> THEN 0 ELSE str[1].len + Bytes(Tail(str))

IsShort(c)     == c.r > 0 /\ c.r < c.req /\ c.r < c.left
IsTransient(c) == c.r = -1 /\ c.err \in {"EINTR", "EAGAIN"}
IsExtra(c)     == IsShort(c) \/ IsTransient(c)
Extras(h)      == Len(SelectSeq(h, IsExtra))
Supplied(c)    == IF c.r > 0 THEN c.r ELSE 0

RECURSIVE Consumed(_)
Consumed(h) == IF h = <<>> THEN 0 ELSE Supplied(h[1]) + Consumed(Tail(h))

\* What read_func may answer when asked for req bytes with `left` bytes of
\* input left, after the calls h.  A result above sizeof buf, which makes
\* append read past buf, is left out.
ReadResults(req, left, h) ==
    LET full == Min(req, left)
        pos  == Consumed(h)
        ok(n) == [r |-> n, err |-> "none", off |-> pos]
    IN  \* the end of the input
        (IF left = 0 THEN {ok(0)} ELSE {})
        \* as many bytes as asked for, or all that are left
        \cup (IF full > 0 THEN {ok(full)} ELSE {})
        \* fewer
        \cup (IF Extras(h) < MaxExtra
              THEN {ok(n) : n \in {m \in {1, full - 1} : 0 < m /\ m < full}}
              ELSE {})
        \* more than asked for, though no more than buf holds
        \cup (IF req < BufSize /\ req < left THEN {ok(req + 1)} ELSE {})
        \* a failure that a retry may cure
        \cup (IF Extras(h) < MaxExtra
              THEN {[r |-> -1, err |-> e, off |-> pos] :
                       e \in {"EINTR", "EAGAIN"}}
              ELSE {})
        \* a failure that it may not
        \cup {[r |-> -1, err |-> "EIO", off |-> pos]}
        \* a negative result other than -1
        \cup {[r |-> -2, err |-> "EIO", off |-> pos]}

ArgSizes ==
    (-1 .. MaxSmall) \cup {BufSize - 1, BufSize, BufSize + 1, 2 * BufSize + 1}
InputLens ==
    (0 .. MaxSmall) \cup {BufSize, BufSize + 1, 2 * BufSize + 2}

\* What *content holds before the call.
Stale == <<[off |-> -1, len |-> 7]>>

-----------------------------------------------------------------------------
(* WriteTo, file.cc:115-122 *)

\* INT_MAX of a 32-bit int.  A size_t of 64 bits is held as [hi, lo] with
\* 0 <= lo <= IntMax, its value being hi * (IntMax + 1) + lo.
IntMax == 2147483647
IntMin == -IntMax - 1

\* static_cast<int>(size): the low 32 bits of size, read as a signed int.
StaticCastInt(sz) == IF sz.hi % 2 = 0 THEN sz.lo ELSE sz.lo + IntMin

\* What WriteTo returns when write_func returned r (file.cc:118-121).
WriteToReturn(sz, r) ==
    IF r = -1 THEN FALSE ELSE r = StaticCastInt(sz)

\* The sizes written range up to (MaxHi + 1) * 2^31 - 1.
MaxHi == 3
SampleLo == {0, 1, 5, IntMax - 1, IntMax}
Sizes == [hi : 0..MaxHi, lo : SampleLo]
\* What write_func may return: an int, sampled at both ends and around 0.
WriteResults == {IntMin, IntMin + 1, IntMin + 5, -5, -2, -1} \cup SampleLo

-----------------------------------------------------------------------------
(* DirectoryTreeWalker and _GetAllFilesUnder, file.cc:161-190 *)

\* The directory `path` is entry 0; the entries under it are 1..n, each
\* below a directory of a smaller number.  An entry stands for its path.
Root == 0
MaxEntries == 3

Trees ==
    UNION { {t \in [1..n -> [parent : 0..(n - 1), is_directory : BOOLEAN]] :
                \A e \in 1..n :
                    /\ t[e].parent < e
                    /\ t[e].parent = Root \/ t[t[e].parent].is_directory}
            : n \in 0..MaxEntries }

Children(t, dir) == {e \in DOMAIN t : t[e].parent = dir}
Directories(t) == {Root} \cup {e \in DOMAIN t : t[e].is_directory}

\* _files->push_back(path) (file.cc:171)
push_front(files, p) == <<p>> \o files
push_back(files, p) == Append(files, p)

\* A path that *result holds before the call.
Old == -1

-----------------------------------------------------------------------------
(* The components at rest: what each specification leaves alone. *)

IdleNormalize ==
    /\ path = <<>> /\ n_out = <<>> /\ n_out2 = <<>> /\ n_pc = "idle"
IdleJoin ==
    /\ path1 = <<>> /\ path2 = <<>> /\ j_out = <<>> /\ j_pc = "idle"
IdleRead ==
    /\ r_arg = 0 /\ r_len = 0 /\ max_size = 0 /\ content = <<>>
    /\ r_ret = "none" /\ r_pc = "idle" /\ calls = <<>>
IdleWrite ==
    /\ size = [hi |-> 0, lo |-> 0] /\ w_r = 0 /\ w_ret = FALSE
    /\ w_calls = 0 /\ w_pc = "idle"
IdleWalk ==
    /\ tree = <<>> /\ result = <<>> /\ result0 = <<>> /\ stack = <<>>
    /\ seen = <<>> /\ d_pc = "idle"

-----------------------------------------------------------------------------
(* NormalizePath applied once, and again to its own result. *)

InitNormalize ==
    /\ path \in Paths
    /\ n_out = <<>> /\ n_out2 = <<>> /\ n_pc = "start"
    /\ IdleJoin /\ IdleRead /\ IdleWrite /\ IdleWalk

Normalize ==
    /\ n_pc = "start"
    /\ n_out' = NormalizePath(path)
    /\ n_pc' = "once"
    /\ UNCHANGED <<path, n_out2, jvars, rvars, wvars, dvars>>

NormalizeAgain ==
    /\ n_pc = "once"
    /\ n_out2' = NormalizePath(n_out)
    /\ n_pc' = "twice"
    /\ UNCHANGED <<path, n_out, jvars, rvars, wvars, dvars>>

NextNormalize == Normalize \/ NormalizeAgain
SpecNormalize == InitNormalize /\ [][NextNormalize]_vars

-----------------------------------------------------------------------------
(* JoinPath applied to a pair of paths. *)

InitJoin ==
    /\ path1 \in Strings(JoinAlphabet, MaxJoinLen)
    /\ path2 \in Strings(JoinAlphabet, MaxJoinLen)
    /\ j_out = <<>> /\ j_pc = "start"
    /\ IdleNormalize /\ IdleRead /\ IdleWrite /\ IdleWalk

Join ==
    /\ j_pc = "start"
    /\ j_out' = JoinPath(path1, path2)
    /\ j_pc' = "done"
    /\ UNCHANGED <<path1, path2, nvars, rvars, wvars, dvars>>

NextJoin == Join
SpecJoin == InitJoin /\ [][NextJoin]_vars

-----------------------------------------------------------------------------
(* One call of ReadFrom(read_func, content, r_arg). *)

InitRead ==
    /\ r_arg \in ArgSizes
    /\ r_len \in InputLens
    /\ content \in {<<>>, Stale}
    /\ max_size = r_arg
    /\ r_ret = "none" /\ r_pc = "start" /\ calls = <<>>
    /\ IdleNormalize /\ IdleJoin /\ IdleWrite /\ IdleWalk

\* file.cc:92: the call begins.
ReadFrom_Enter ==
    /\ r_pc = "start"
    /\ content' = Clear(content)
    /\ r_pc' = "loop"
    /\ UNCHANGED <<r_arg, r_len, max_size, r_ret, calls, nvars, jvars, wvars, dvars>>

\* file.cc:95-111: one turn of the loop, read_func answering res.
ReadFrom_Read ==
    /\ r_pc = "loop"
    /\ LET req  == RequestLen(max_size)
           left == r_len - Consumed(calls)
       IN  \E res \in ReadResults(req, left, calls) :
               LET st == ReadIter([max_size |-> max_size,
                                   content  |-> content,
                                   status   |-> "loop"], res)
               IN  /\ max_size' = st.max_size
                   /\ content' = st.content
                   /\ r_pc' = IF st.status = "loop" THEN "loop" ELSE "done"
                   /\ r_ret' = IF st.status = "loop" THEN r_ret ELSE st.status
                   /\ calls' = Append(calls,
                                      [req |-> req, r |-> res.r, err |-> res.err,
                                       off |-> res.off, left |-> left,
                                       allowance |-> max_size,
                                       before |-> content])
    /\ UNCHANGED <<r_arg, r_len, nvars, jvars, wvars, dvars>>

NextRead == ReadFrom_Enter \/ ReadFrom_Read
SpecRead == InitRead /\ [][NextRead]_vars
\* The loop runs on as long as it can: the call is one thread's code.
LiveSpecRead == SpecRead /\ WF_vars(NextRead)

-----------------------------------------------------------------------------
(* One call of WriteTo(write_func, data, size). *)

InitWrite ==
    /\ size \in Sizes
    /\ w_r = 0 /\ w_ret = FALSE /\ w_calls = 0 /\ w_pc = "start"
    /\ IdleNormalize /\ IdleJoin /\ IdleRead /\ IdleWalk

WriteTo ==
    /\ w_pc = "start"
    /\ \E r \in WriteResults :
           /\ w_r' = r
           /\ w_ret' = WriteToReturn(size, r)
    /\ w_calls' = w_calls + 1
    /\ w_pc' = "done"
    /\ UNCHANGED <<size, nvars, jvars, rvars, dvars>>

NextWrite == WriteTo
SpecWrite == InitWrite /\ [][NextWrite]_vars

-----------------------------------------------------------------------------
(* One call of _GetAllFilesUnder(path, result, walk_entries). *)

InitWalk ==
    /\ tree \in Trees
    /\ result \in {<<>>, <<Old>>}
    /\ result0 = result
    /\ stack = <<>>
    /\ seen = [d \in Directories(tree) |-> <<>>]
    /\ d_pc = "start"
    /\ IdleNormalize /\ IdleJoin /\ IdleRead /\ IdleWrite

\* Walk(dir): walk_entries(dir, this) begins (file.cc:175).
Walk(frames, dir) ==
    Append(frames, [dir |-> dir, left |-> Children(tree, dir)])

\* file.cc:189: DirectoryTreeWalker(result, walk_entries).Walk(path)
GetAllFilesUnder ==
    /\ d_pc = "start"
    /\ stack' = Walk(stack, Root)
    /\ d_pc' = "walking"
    /\ UNCHANGED <<tree, result, result0, seen, nvars, jvars, rvars, wvars>>

\* walk_entries reports an entry e of the directory it is listing:
\* Consume(e, is_directory) (file.cc:167-173).
Consume ==
    /\ d_pc = "walking"
    /\ LET top == stack[Len(stack)]
       IN  \E e \in top.left :
               LET listing == [stack EXCEPT ![Len(stack)].left = @ \ {e}]
               IN  /\ seen' = [seen EXCEPT ![top.dir] = Append(@, e)]
                   /\ IF tree[e].is_directory
                      THEN /\ stack' = Walk(listing, e)
                           /\ result' = result
                      ELSE /\ stack' = listing
                           /\ result' = push_back(result, e)
    /\ UNCHANGED <<tree, result0, d_pc, nvars, jvars, rvars, wvars>>

\* walk_entries has reported every entry of the directory and returns.
WalkReturns ==
    /\ d_pc = "walking"
    /\ stack[Len(stack)].left = {}
    /\ stack' = SubSeq(stack, 1, Len(stack) - 1)
    /\ d_pc' = IF Len(stack) = 1 THEN "done" ELSE "walking"
    /\ UNCHANGED <<tree, result, result0, seen, nvars, jvars, rvars, wvars>>

NextWalk == GetAllFilesUnder \/ Consume \/ WalkReturns
SpecWalk == InitWalk /\ [][NextWalk]_vars

-----------------------------------------------------------------------------
(* All of it. *)

Init == InitNormalize \/ InitJoin \/ InitRead \/ InitWrite \/ InitWalk
Next == NextNormalize \/ NextJoin \/ NextRead \/ NextWrite \/ NextWalk
Spec == Init /\ [][Next]_vars

-----------------------------------------------------------------------------
(* Properties of NormalizePath *)

HasPrefix(s, c) == s # <<>> /\ s[1] = c

\* The segments of s: its maximal runs of characters other than '/', in order.
Runs(s) ==
    {r \in (1..Len(s)) \X (1..Len(s)) :
        /\ r[1] <= r[2]
        /\ \A k \in r[1]..r[2] : s[k] # Slash
        /\ r[1] = 1 \/ s[r[1] - 1] = Slash
        /\ r[2] = Len(s) \/ s[r[2] + 1] = Slash}
SegmentsOf(s) ==
    LET R == Runs(s)
        nth(k) == CHOOSE r \in R : Cardinality({q \in R : q[1] < r[1]}) = k - 1
    IN  [k \in 1..Cardinality(R) |-> SubSeq(s, nth(k)[1], nth(k)[2])]

\* The stack procedure: '..' removes the last retained segment if there is
\* one, '.' is discarded, anything else is retained.
RECURSIVE Retained(_, _)
Retained(segs, k) ==
    IF k = 0 THEN <<>>
    ELSE LET before == Retained(segs, k - 1)
         IN  IF segs[k] = <<Dot, Dot>>
             THEN IF before = <<>> THEN <<>>
                  ELSE SubSeq(before, 1, Len(before) - 1)
             ELSE IF segs[k] = <<Dot>> THEN before
             ELSE Append(before, segs[k])

RECURSIVE Joined(_, _)
Joined(segs, k) ==
    IF k = 0 THEN <<>>
    ELSE IF k = 1 THEN segs[1]
    ELSE Joined(segs, k - 1) \o <<Slash>> \o segs[k]

RefNormalize(s) ==
    LET kept == Retained(SegmentsOf(s), Len(SegmentsOf(s)))
    IN  IF HasPrefix(s, Slash) THEN <<Slash>> \o Joined(kept, Len(kept))
        ELSE Joined(kept, Len(kept))

\* The part of s before its first NUL character (all of s when it has none).
UpToNul(s) == IF Find(s, NUL) < 0 THEN s ELSE SubSeq(s, 1, Find(s, NUL))

\* C1: NormalizePath is idempotent: normalizing the result of NormalizePath
\* gives that result again, for every input path.
C1_Idempotent == n_pc = "twice" => n_out2 = n_out

\* C1's case: a path with '..', '.', a repeated and a trailing '/' normalized
\* twice.
C1_Witness ==
    /\ n_pc = "twice"
    /\ path = <<"/", "a", "/", "/", "b", "/", ".", "/", "c", "/">>
    /\ n_out = <<"/", "a", "/", "b", "/", "c">>

\* C2: the result of NormalizePath is canonical: no segment is '.' or '..',
\* no '/' is doubled, no '/' trails unless the result is exactly "/", and the
\* result begins with '/' if and only if the input did.
C2_Canonical ==
    n_pc # "start" =>
        /\ \A k \in 1..Len(SegmentsOf(n_out)) :
               SegmentsOf(n_out)[k] \notin {<<Dot>>, <<Dot, Dot>>}
        /\ \A i \in 1..(Len(n_out) - 1) :
               ~(n_out[i] = Slash /\ n_out[i + 1] = Slash)
        /\ (n_out # <<>> /\ n_out[Len(n_out)] = Slash) => n_out = <<Slash>>
        /\ HasPrefix(n_out, Slash) <=> HasPrefix(path, Slash)

\* C2's case: an absolute path with '.', '..', a doubled and a trailing '/'.
C2_Witness ==
    /\ n_pc = "once"
    /\ path = <<"/", ".", "/", "/", "a">>
    /\ n_out = <<"/", "a">>

\* C3 as stated: NormalizePath equals the stack procedure on every input.
C3_Original == n_pc # "start" => n_out = RefNormalize(path)

\* C3: NormalizePath equals the stack procedure applied to the input up to
\* its first NUL character, which is the whole input when it holds no NUL:
\* '..' removes the last retained segment or is dropped when none is
\* retained, '.' is discarded, the retained segments are joined by '/' after
\* the input's leading '/', if any.  "" gives "", "/.." gives "/",
\* "a/./b/../c" gives "a/c" and "a/../../b" gives "b".
C3_StackProcedure ==
    n_pc # "start" =>
        /\ n_out = RefNormalize(UpToNul(path))
        /\ path = <<>> => n_out = <<>>
        /\ path = <<"/", ".", ".">> => n_out = <<"/">>
        /\ path = <<"a", "/", ".", "/", "b", "/", ".", ".", "/", "c">>
               => n_out = <<"a", "/", "c">>
        /\ path = <<"a", "/", ".", ".", "/", ".", ".", "/", "b">>
               => n_out = <<"b">>

\* C3's case: a '..' met with nothing retained is dropped.
C3_Witness ==
    /\ n_pc = "once"
    /\ path = <<"a", "/", ".", ".", "/", ".", ".", "/", "b">>
    /\ n_out = <<"b">>

-----------------------------------------------------------------------------
(* Properties of JoinPath *)

\* A '//' of s that lies across positions n and n + 1, or n + 1 and n + 2.
DoubledAt(s, n) ==
    \E i \in {n, n + 1} :
        i >= 1 /\ i + 1 <= Len(s) /\ s[i] = Slash /\ s[i + 1] = Slash

JoinCase == j_pc = "done" /\ path1 # <<>> /\ path1[Len(path1)] # Slash

\* C4 as stated: for a non-empty a not ending with '/', a b starting with '/'
\* gives a \o b with a doubled '/' at the junction, and any other b gives
\* a, one '/', b.
C4_Original ==
    JoinCase =>
        IF HasPrefix(path2, Slash)
        THEN j_out = path1 \o path2 /\ DoubledAt(j_out, Len(path1))
        ELSE j_out = path1 \o <<Slash>> \o path2

\* C4: for a non-empty a not ending with '/', a b starting with '/' gives
\* a \o b, where b's own first '/' is the only separator put between a and
\* the rest of b (a '//' is there only when b itself starts with '//'); any
\* other b gives a, one '/', b.
C4_SingleSeparator ==
    JoinCase =>
        IF HasPrefix(path2, Slash)
        THEN /\ j_out = path1 \o path2
             /\ j_out[Len(path1)] # Slash
             /\ j_out[Len(path1) + 1] = Slash
             /\ DoubledAt(j_out, Len(path1))
                    <=> (Len(path2) >= 2 /\ path2[2] = Slash)
        ELSE j_out = path1 \o <<Slash>> \o path2

\* C4's case: "a" joined with "/b".
C4_Witness ==
    /\ j_pc = "done"
    /\ path1 = <<"a">> /\ path2 = <<"/", "b">>
    /\ j_out = <<"a", "/", "b">>

-----------------------------------------------------------------------------
(* Properties of ReadFrom *)

InCall == r_pc \in {"loop", "done"}

\* read_func never gave more bytes than it was asked for.
Honest == \A k \in 1..Len(calls) : calls[k].r <= calls[k].req

\* A negative result that is no retryable failure.
IsFatal(c) == c.r < 0 /\ ~IsTransient(c)
NotTransient(c) == ~IsTransient(c)
IsChunk(c) == c.r > 0

\* The state the call is in, as ReadIter sees it.
Now ==
    [max_size |-> max_size, content |-> content,
     status |-> IF r_pc = "loop" THEN "loop" ELSE r_ret]

\* C5: with a positive max_size N and a read_func that never gives more than
\* it is asked for, the buffer never holds more than N bytes during the
\* call, each call asks for at most min(4096, N - bytes appended so far), and
\* the call ends once N bytes are appended.
C5_Bounded ==
    (InCall /\ r_arg > 0 /\ Honest) =>
        /\ Bytes(content) <= r_arg
        /\ \A k \in 1..Len(calls) :
               calls[k].req <= Min(BufSize, r_arg - Bytes(calls[k].before))
        /\ Bytes(content) = r_arg => (r_pc = "done" /\ r_ret = "true")

\* C5's case: an allowance above 4096 used up while input is left.
C5_Witness ==
    /\ r_pc = "done" /\ Honest
    /\ r_arg = BufSize + 1
    /\ Bytes(content) = r_arg
    /\ r_len > r_arg
    /\ Len(calls) >= 2

\* What C6 says of the call c = calls[k].
EndsFalseAt(k) ==
    /\ k = Len(calls)
    /\ r_pc = "done" /\ r_ret = "false"
    /\ content = calls[k].before

\* C6 as stated: a negative result that is no retryable failure ends the
\* call with false at once.
C6_Original ==
    InCall => \A k \in 1..Len(calls) : IsFatal(calls[k]) => EndsFalseAt(k)

\* C6: a result of -1 whose error is neither 'interrupted' nor 'try again'
\* ends the call with false at once, whatever allowance is left: it is the
\* last call of read_func, nothing is appended, and the buffer holds what
\* was appended before it.
C6_FailsAtOnce ==
    InCall =>
        \A k \in 1..Len(calls) :
            (calls[k].r = -1 /\ ~IsTransient(calls[k])) => EndsFalseAt(k)

\* C6's case: an error met after a chunk was appended, allowance left.
C6_Witness ==
    /\ r_pc = "done" /\ r_ret = "false"
    /\ content # <<>>
    /\ r_arg > Bytes(content)
    /\ calls[Len(calls)].r = -1 /\ calls[Len(calls)].err = "EIO"

\* The call replayed on a script of read_func's answers.
RECURSIVE Replay(_, _)
Replay(st, script) ==
    IF script = <<>> \/ st.status # "loop" THEN st
    ELSE Replay(ReadIter(st, script[1]), Tail(script))

Answers(h) ==
    [k \in 1..Len(h) |-> [r |-> h[k].r, err |-> h[k].err, off |-> h[k].off]]

Entered == [max_size |-> r_arg, content |-> <<>>, status |-> "loop"]

\* C7: the retryable failures (-1 with 'interrupted' or 'try again') do not
\* show: the call stands where it would stand had read_func given the same
\* answers without them, and after such a failure nothing is appended, the
\* allowance is what it was and the next call asks for the same length.
C7_Transparent ==
    InCall =>
        /\ Replay(Entered, Answers(calls)) = Now
        /\ Replay(Entered, SelectSeq(Answers(calls), NotTransient)) = Now
        /\ \A k \in 1..Len(calls) :
               IsTransient(calls[k]) =>
                   IF k < Len(calls)
                   THEN /\ calls[k + 1].before = calls[k].before
                        /\ calls[k + 1].allowance = calls[k].allowance
                        /\ calls[k + 1].req = calls[k].req
                   ELSE /\ r_pc = "loop"
                        /\ content = calls[k].before
                        /\ max_size = calls[k].allowance
                        /\ RequestLen(max_size) = calls[k].req

\* C7's case: a call that ended after failures of both kinds between chunks.
C7_Witness ==
    /\ r_pc = "done" /\ r_ret = "true"
    /\ Len(content) >= 2
    /\ \E i, j \in 1..Len(calls) :
           /\ 1 < i /\ i < j
           /\ calls[1].r > 0
           /\ calls[i].err = "EINTR" /\ calls[j].err = "EAGAIN"

\* The chunks read_func gave, in order.
ChunksRead(h) ==
    LET got == SelectSeq(h, IsChunk)
    IN  [k \in 1..Len(got) |-> [off |-> got[k].off, len |-> got[k].r]]

\* C10: the call ends; and when it has ended and no result was a negative
\* one other than a retryable failure, it has returned true with the buffer
\* holding the chunks read, in order, and nothing else; a result of 0 was the
\* last one; with a positive max_size there were at most max_size reads that
\* gave bytes, and with max_size 0 the call ended at the first result of 0.
C10_ReturnsTrue ==
    /\ <>(r_pc = "done")
    /\ [](  (r_pc = "done" /\ \A k \in 1..Len(calls) : ~IsFatal(calls[k]))
            =>  /\ r_ret = "true"
                /\ content = ChunksRead(calls)
                /\ \A k \in 1..Len(calls) : calls[k].r = 0 => k = Len(calls)
                /\ r_arg > 0 => Len(SelectSeq(calls, IsChunk)) <= r_arg
                /\ r_arg = 0 => calls[Len(calls)].r = 0 )

\* C10's case: an unbounded call that met a retryable failure, read two
\* chunks and ended at the end of input.
C10_Witness ==
    /\ r_pc = "done" /\ r_ret = "true"
    /\ r_arg = 0
    /\ Len(content) = 2
    /\ Len(SelectSeq(calls, IsTransient)) >= 1
    /\ calls[Len(calls)].r = 0

-----------------------------------------------------------------------------
(* Properties of WriteTo *)

\* The size as a number equals r.
SizeIs(sz, r) == sz.hi = 0 /\ sz.lo = r

\* C8: write_func is called exactly once, and WriteTo returns true if and
\* only if its result is not -1 and equals the requested size.
C8_TrueIffAllWritten ==
    w_pc = "done" =>
        /\ w_calls = 1
        /\ w_ret <=> (w_r # -1 /\ SizeIs(size, w_r))

-----------------------------------------------------------------------------
(* Properties of GetAllFilesUnder *)

\* The files under dir, depth first, each directory's entries in the order
\* walk_entries gave them.
RECURSIVE FilesUnder(_)
RECURSIVE FilesOf(_, _)
FilesOf(entries, k) ==
    IF k > Len(entries) THEN <<>>
    ELSE (IF tree[entries[k]].is_directory THEN FilesUnder(entries[k])
          ELSE <<entries[k]>>) \o FilesOf(entries, k + 1)
FilesUnder(dir) == FilesOf(seen[dir], 1)

Range(f) == {f[k] : k \in DOMAIN f}

\* C9: the call only appends to result: what result held stays in front, and
\* once the call is over what follows is the entries under path that are not
\* directories, each once and no directory, depth first in the order of
\* enumeration.
C9_DepthFirst ==
    /\ d_pc \in {"start", "walking", "done"} =>
           /\ Len(result) >= Len(result0)
           /\ SubSeq(result, 1, Len(result0)) = result0
    /\ d_pc = "done" =>
           LET added == SubSeq(result, Len(result0) + 1, Len(result))
           IN  /\ added = FilesUnder(Root)
               /\ Range(added) = DOMAIN tree \ Directories(tree)
               /\ Len(added) = Cardinality(Range(added))

\* C9's case: directories 0 and 0/2, files 0/1 and 0/2/3, the directory
\* enumerated before the file beside it, result not empty before the call.
C9_Witness ==
    /\ d_pc = "done"
    /\ result0 = <<Old>>
    /\ DOMAIN tree = 1..3
    /\ tree[1] = [parent |-> 0, is_directory |-> FALSE]
    /\ tree[2] = [parent |-> 0, is_directory |-> TRUE]
    /\ tree[3] = [parent |-> 2, is_directory |-> FALSE]
    /\ result = <<Old, 3, 1>>

=============================================================================
